---- MODULE Spec2Model ----
(***************************************************************************)
(* A model of the Result demonstrations of src/src/result_demo.rs and of   *)
(* the entry point of src/src/main.rs.                                     *)
(*                                                                         *)
(* Texts (file contents, the literals handed to parse) are sequences of    *)
(* one-character strings.  Rendered messages (Display / Debug output) are  *)
(* sequences of pieces: a format string contributes its literal parts and  *)
(* every {} argument contributes the pieces of its own rendering.          *)
(* The source's non-ASCII literals are written with their code points,     *)
(* e.g. "<6570>" for U+6570.                                               *)
(***************************************************************************)
EXTENDS Integers, Sequences, FiniteSets, TLC

(***************************************************************************)
(* Bounds                                                                  *)
(***************************************************************************)
MaxLen == 2
MaxVal == 1

(***************************************************************************)
(* Result<T, E> and Option<T>                                              *)
(***************************************************************************)
Ok(v) == [ok |-> TRUE, val |-> v]
Err(e) == [ok |-> FALSE, err |-> e]
Some(v) == [some |-> TRUE, val |-> v]
None == [some |-> FALSE]
Unit == "()"

IsOk(r) == r.ok
IsErr(r) == ~r.ok
UnwrapOr(r, default) == IF r.ok THEN r.val ELSE default

\* Result::map / Result::map_err: only the named side is transformed.
\* Closures are functions, applied with f[x].
Map(r, f) == IF r.ok THEN Ok(f[r.val]) ELSE r
MapErr(r, f) == IF r.ok THEN r ELSE Err(f[r.err])

\* Result::and_then over traced results [res, calls]: `calls` lists the
\* functions that were invoked, with their arguments, while the value was
\* computed.  The closure k returns a traced result; it is evaluated only
\* for a receiver that is Ok.
Pure(r) == [res |-> r, calls |-> <<>>]
AndThenKeepReceiver(t, k) ==
    IF t.res.ok
    THEN LET o == k[t.res.val]
         IN  IF o.res.ok THEN [res |-> o.res, calls |-> t.calls \o o.calls]
                         ELSE [res |-> t.res, calls |-> t.calls \o o.calls]
    ELSE t
AndThen(t, k) ==
    IF t.res.ok
    THEN LET o == k[t.res.val]
         IN  [res |-> o.res, calls |-> t.calls \o o.calls]
    ELSE t

(***************************************************************************)
(* Texts                                                                   *)
(***************************************************************************)
Alphabet == {"0", "1", "2", "a", " ", "+", "-"}
SeqsUpTo(n) == UNION {[1..k -> Alphabet] : k \in 0..n}
Lit123 == <<"1", "2", "3">>
Lit10 == <<"1", "0">>
LitAbc == <<"a", "b", "c">>
Lit5 == <<"5">>
IntExtraTexts ==
    { Lit123, <<"1", "2", "4">>, Lit10, LitAbc, Lit5,
      <<" ", "4", "2", "\n">>,
      <<"2", "1", "4", "7", "4", "8", "3", "6", "4", "7">>,
      <<"2", "1", "4", "7", "4", "8", "3", "6", "4", "8">>,
      <<"-", "2", "1", "4", "7", "4", "8", "3", "6", "4", "8">>,
      <<"-", "2", "1", "4", "7", "4", "8", "3", "6", "4", "9">>,
      <<"4", "2", "9", "4", "9", "6", "7", "2", "9", "5">>,
      <<"4", "2", "9", "4", "9", "6", "7", "2", "9", "6">>,
      <<"9", "9", "9", "9", "9", "9", "9", "9", "9", "9", "a">> }
FloatExtraTexts == { Lit123, Lit10, LitAbc, Lit5, <<"-", "0", "0">> }
IntTexts == SeqsUpTo(MaxLen) \cup IntExtraTexts
FloatTexts == SeqsUpTo(MaxLen) \cup FloatExtraTexts

IsWhitespace(c) == c \in {" ", "\n"}
RECURSIVE TrimStart(_)
TrimStart(s) ==
    IF s # <<>> /\ IsWhitespace(Head(s)) THEN TrimStart(Tail(s)) ELSE s
RECURSIVE TrimEnd(_)
TrimEnd(s) ==
    IF s # <<>> /\ IsWhitespace(s[Len(s)])
    THEN TrimEnd(SubSeq(s, 1, Len(s) - 1)) ELSE s
\* str::trim
Trim(s) == TrimEnd(TrimStart(s))

(***************************************************************************)
(* str::parse::<i32>, ::<u32>, ::<f64>                                     *)
(***************************************************************************)
DigitChars == <<"0", "1", "2", "3", "4", "5", "6", "7", "8", "9">>
Digits == {DigitChars[i] : i \in 1..10}
DigitVal(c) == (CHOOSE i \in 1..10 : DigitChars[i] = c) - 1

ParseIntError(kind) == [type |-> "ParseIntError", kind |-> kind]
ParseFloatError(kind) == [type |-> "ParseFloatError", kind |-> kind]
ParseIntErrors ==
    {ParseIntError(k) : k \in {"Empty", "InvalidDigit", "PosOverflow", "NegOverflow"}}
ParseFloatErrors == {ParseFloatError(k) : k \in {"Empty", "Invalid"}}
F64s == [neg : BOOLEAN, mag : Nat]

I32Max == 2147483647
I32Min == (-I32Max) - 1

\* checked_mul(10), then checked_add / checked_sub of the digit
RECURSIVE AccumI32(_, _, _)
AccumI32(digits, acc, positive) ==
    IF digits = <<>> THEN Ok(acc)
    ELSE LET c == Head(digits)
             over == ParseIntError(IF positive THEN "PosOverflow"
                                               ELSE "NegOverflow")
         IN  IF c \notin Digits THEN Err(ParseIntError("InvalidDigit"))
             ELSE IF acc > I32Max \div 10 \/ acc < -(I32Max \div 10)
                  THEN Err(over)
             ELSE LET t == acc * 10
                      d == DigitVal(c)
                  IN  IF positive
                      THEN IF t > I32Max - d THEN Err(over)
                           ELSE AccumI32(Tail(digits), t + d, positive)
                      ELSE IF t < I32Min + d THEN Err(over)
                           ELSE AccumI32(Tail(digits), t - d, positive)

ParseI32(src) ==
    IF src = <<>> THEN Err(ParseIntError("Empty"))
    ELSE IF Len(src) = 1 /\ src[1] \in {"+", "-"}
         THEN Err(ParseIntError("InvalidDigit"))
    ELSE IF src[1] = "+" THEN AccumI32(Tail(src), 0, TRUE)
    ELSE IF src[1] = "-" THEN AccumI32(Tail(src), 0, FALSE)
    ELSE AccumI32(src, 0, TRUE)

\* A u32 is held as its canonical decimal digits (no leading zero), which
\* is also what Display prints for it: its upper half does not fit the
\* integers of the model checker.
U32MaxDigits == <<"4", "2", "9", "4", "9", "6", "7", "2", "9", "5">>
RECURSIVE DigitsGreater(_, _)
DigitsGreater(a, b) ==
    IF Len(a) # Len(b) THEN Len(a) > Len(b)
    ELSE IF a = <<>> THEN FALSE
    ELSE IF Head(a) # Head(b) THEN DigitVal(Head(a)) > DigitVal(Head(b))
    ELSE DigitsGreater(Tail(a), Tail(b))

RECURSIVE AccumU32(_, _)
AccumU32(digits, acc) ==
    IF digits = <<>> THEN Ok(acc)
    ELSE LET c == Head(digits)
         IN  IF c \notin Digits THEN Err(ParseIntError("InvalidDigit"))
             ELSE LET new == IF acc = <<"0">> THEN <<c>> ELSE Append(acc, c)
                  IN  IF DigitsGreater(new, U32MaxDigits)
                      THEN Err(ParseIntError("PosOverflow"))
                      ELSE AccumU32(Tail(digits), new)

\* for an unsigned type a leading '-' is not a sign but an invalid digit
ParseU32(src) ==
    IF src = <<>> THEN Err(ParseIntError("Empty"))
    ELSE IF Len(src) = 1 /\ src[1] \in {"+", "-"}
         THEN Err(ParseIntError("InvalidDigit"))
    ELSE IF src[1] = "+" THEN AccumU32(Tail(src), <<"0">>)
    ELSE AccumU32(src, <<"0">>)

\* f64 values are [neg, mag] with an integral magnitude.  The texts handed
\* to this parser are drawn from FloatTexts, which holds no '.', exponent,
\* "inf" or "nan", so the grammar that remains is [+-]?[0-9]+ .
RECURSIVE Magnitude(_, _)
Magnitude(digits, acc) ==
    IF digits = <<>> THEN acc
    ELSE Magnitude(Tail(digits), acc * 10 + DigitVal(Head(digits)))

ParseF64(src) ==
    LET signed == src # <<>> /\ src[1] \in {"+", "-"}
        body == IF signed THEN Tail(src) ELSE src
    IN  IF src = <<>> THEN Err(ParseFloatError("Empty"))
        ELSE IF body = <<>> \/ \E i \in 1..Len(body) : body[i] \notin Digits
             THEN Err(ParseFloatError("Invalid"))
        ELSE Ok([neg |-> src[1] = "-", mag |-> Magnitude(body, 0)])

(***************************************************************************)
(* Low-level errors and their renderings                                   *)
(***************************************************************************)
IoError(repr, kind, desc) ==
    [type |-> "io::Error", repr |-> repr, kind |-> kind, desc |-> desc]
IoNotFound == IoError("Os", "NotFound",
                      <<"No such file or directory", " (os error 2)">>)
IoPermissionDenied == IoError("Os", "PermissionDenied",
                              <<"Permission denied", " (os error 13)">>)
IoInvalidData == IoError("SimpleMessage", "InvalidData",
                         <<"stream did not contain valid UTF-8">>)
IoOfKind(kind) ==
    CASE kind = "NotFound" -> IoNotFound
      [] kind = "PermissionDenied" -> IoPermissionDenied
      [] kind = "InvalidData" -> IoInvalidData

DisplayIoError(e) == e.desc
\* {:?} of an io::Error built by io::Error::new, the only kind that is
\* ever printed with {:?}
DebugIoError(e) ==
    <<"Custom { kind: ", e.kind, ", error: \"">> \o e.desc \o <<"\" }">>

DisplayParseIntError(e) ==
    CASE e.kind = "Empty" -> <<"cannot parse integer from empty string">>
      [] e.kind = "InvalidDigit" -> <<"invalid digit found in string">>
      [] e.kind = "PosOverflow" -> <<"number too large to fit in target type">>
      [] e.kind = "NegOverflow" -> <<"number too small to fit in target type">>
DebugParseIntError(e) == <<"ParseIntError { kind: ", e.kind, " }">>

DisplayI32(v) == <<ToString(v)>>
DisplayU32(v) == v
DisplayUsize(v) == <<ToString(v)>>
DisplayBool(b) == <<IF b THEN "true" ELSE "false">>

(***************************************************************************)
(* DemoError                                                               *)
(***************************************************************************)
DemoErrorIo(e) == [type |-> "DemoError", variant |-> "Io", e |-> e]
DemoErrorParse(e) == [type |-> "DemoError", variant |-> "Parse", e |-> e]
DemoErrorBusinessRule(msg) ==
    [type |-> "DemoError", variant |-> "BusinessRule", msg |-> msg]

\* impl Display for DemoError
DisplayDemoErrorNoCause(d) ==
    CASE d.variant = "Io" -> <<"IO error: ">>
      [] d.variant = "Parse" -> <<"Parse error: ">>
      [] d.variant = "BusinessRule" -> <<"Business error: ", d.msg>>
DisplayDemoError(d) ==
    CASE d.variant = "Io" -> <<"IO error: ">> \o DisplayIoError(d.e)
      [] d.variant = "Parse" -> <<"Parse error: ">> \o DisplayParseIntError(d.e)
      [] d.variant = "BusinessRule" -> <<"Business error: ", d.msg>>

\* impl Error for DemoError: source()
SourceNone(d) == None
Source(d) ==
    CASE d.variant = "Io" -> Some(d.e)
      [] d.variant = "Parse" -> Some(d.e)
      [] d.variant = "BusinessRule" -> None

\* impl From<io::Error> for DemoError, impl From<ParseIntError> for DemoError
FromIo(err) == DemoErrorIo(err)
FromParse(err) == DemoErrorParse(err)
\* the From impl that `?` selects inside a function returning
\* Result<_, DemoError>, by the type of the error it propagates
FromForDemoErrorAllIo(e) == FromIo(e)
FromForDemoError(e) ==
    CASE e.type = "io::Error" -> FromIo(e)
      [] e.type = "ParseIntError" -> FromParse(e)

\* Box<dyn Error>: From<E: Error> boxes the error itself; Display and Debug
\* delegate to the boxed value
Box(e) == [type |-> "Box<dyn Error>", inner |-> e]
FromForBox(e) == Box(e)
DisplayError(e) ==
    CASE e.type = "io::Error" -> DisplayIoError(e)
      [] e.type = "ParseIntError" -> DisplayParseIntError(e)
      [] e.type = "DemoError" -> DisplayDemoError(e)
DisplayBox(b) == DisplayError(b.inner)
DebugBox(b) == DebugIoError(b.inner)

\* The ? operator: an Ok value is unwrapped and the function continues, an
\* Err makes the function return Err(From::from(e)), with the From impl
\* for the error type E of the enclosing function's Result<_, E>.
From(e, target) ==
    CASE target = "DemoError" -> FromForDemoError(e)
      [] target = "Box<dyn Error>" -> FromForBox(e)
Question(r, target) ==
    IF r.ok THEN [brk |-> FALSE, val |-> r.val]
            ELSE [brk |-> TRUE, ret |-> Err(From(r.err, target))]

(***************************************************************************)
(* The file system seen by File::open and Read::read_to_string             *)
(***************************************************************************)
MainRs == "src/main.rs"
NumbersTxt == "numbers.txt"
Paths == {MainRs, NumbersTxt}
MainRsText == <<"f", "n", " ", "m", "a", "i", "n", "(", ")", " ", "{", "}">>
FileState(open, read, text) == [open |-> open, read |-> read, text |-> text]
DefaultFile == FileState("ok", "ok", <<>>)
OpenOutcomes == {"ok", "NotFound", "PermissionDenied"}
ReadOutcomes == {"ok", "InvalidData"}
NumbersStates ==
    {FileState(o, r, t) : o \in OpenOutcomes, r \in ReadOutcomes, t \in IntTexts}
MainRsStates ==
    {FileState(o, r, MainRsText) : o \in OpenOutcomes, r \in ReadOutcomes}

FileOpen(f, p) ==
    IF f[p].open = "ok" THEN Ok(p) ELSE Err(IoOfKind(f[p].open))
ReadToString(f, handle) ==
    IF f[handle].read = "ok" THEN Ok(f[handle].text)
                             ELSE Err(IoOfKind(f[handle].read))

(***************************************************************************)
(* Literals of the demonstrations                                          *)
(***************************************************************************)
MsgEven == "<6570><5B57><4E0D><80FD><662F><5076><6570>"
MsgDivZero == "<9664><6570><4E0D><80FD><4E3A> 0"
MsgNotNumber == "<4E0D><662F><6570><5B57>"
MsgParseFailed == "<89E3><6790><5931><8D25>: "
Header1 == "=== Result <57FA><672C><7528><6CD5> ==="
Header2 == "\n=== ? <8FD0><7B97><7B26><4F20><64AD><9519><8BEF> ==="
Header3 == "\n=== map / map_err / and_then <7EC4><5408><5668> ==="
Header4 == "\n=== <81EA><5B9A><4E49><9519><8BEF><7C7B><578B><4E0E> From <8F6C><6362> ==="
Header5 == "\n=== <5C06><5177><4F53><9519><8BEF><62B9><5E73><4E3A> Box<dyn Error> ==="
Headers == <<Header1, Header2, Header3, Header4, Header5>>

\* i32 `%`: the remainder takes the sign of the dividend
RustRem(a, b) ==
    LET m == a % b IN IF a < 0 /\ m # 0 THEN m - b ELSE m

\* fn reciprocal, as a traced step.  -0.0 == 0.0 holds for f64.
Reciprocal(x) ==
    [res |-> IF x.mag = 0 THEN Err(MsgDivZero) ELSE Ok([num |-> 1, den |-> x]),
     calls |-> << <<"reciprocal", x>> >>]

\* "5".parse::<f64>().map_err(|_| ...).and_then(reciprocal), for a text t
FloatZero == [neg |-> FALSE, mag |-> 0]
ReciprocalFn == [x \in F64s |-> Reciprocal(x)]
ChainedEager(t) == ReciprocalFn[UnwrapOr(ParseF64(t), FloatZero)]
Chained(t) ==
    AndThen(Pure(MapErr(ParseF64(t), [e \in ParseFloatErrors |-> MsgNotNumber])),
            ReciprocalFn)

\* {:?} of the three results printed by demonstrate_combinators
DebugResultI32(r) ==
    IF r.ok THEN <<"Ok(">> \o DisplayI32(r.val) \o <<")">>
            ELSE <<"Err(">> \o DebugParseIntError(r.err) \o <<")">>
DebugResultString(r) ==
    IF r.ok THEN <<"Ok(">> \o DisplayI32(r.val) \o <<")">>
            ELSE <<"Err(\"">> \o r.err \o <<"\")">>
\* the decimal expansion of the quotient is not computed: 1.0 / x is
\* printed as the pieces "1/" and x
DebugResultF64(r) ==
    IF r.ok THEN <<"Ok(", "1/", IF r.val.den.neg THEN "-" ELSE "",
                   ToString(r.val.den.mag), ")">>
            ELSE <<"Err(\"", r.err, "\")">>

(***************************************************************************)
(* Three-step and_then chains over small step functions.  A step is a      *)
(* table from values to a value or to Fail; step `name` fails at x with    *)
(* the error <<name, x>>.                                                  *)
(***************************************************************************)
Vals == 0..MaxVal
Fail == -1
StepTables == [Vals -> Vals \cup {Fail}]
ChainStarts == {Ok(v) : v \in Vals} \cup {Err(<<"r", 0>>)}
Step(name, tbl, x) ==
    [res |-> IF tbl[x] = Fail THEN Err(<<name, x>>) ELSE Ok(tbl[x]),
     calls |-> << <<name, x>> >>]
\* r.and_then(f).and_then(g).and_then(h)
ChainLeft(r, f, g, h) ==
    AndThen(AndThen(AndThen(Pure(r), [x \in Vals |-> Step("f", f, x)]),
                    [y \in Vals |-> Step("g", g, y)]),
            [z \in Vals |-> Step("h", h, z)])
\* r.and_then(|x| f(x).and_then(|y| g(y).and_then(h)))
ChainRight(r, f, g, h) ==
    AndThen(Pure(r),
            [x \in Vals |->
               AndThen(Step("f", f, x),
                       [y \in Vals |->
                          AndThen(Step("g", g, y),
                                  [z \in Vals |-> Step("h", h, z)])])])

(***************************************************************************)
(* State                                                                   *)
(***************************************************************************)
VARIABLES
    entry,      \* the function a behaviour starts in
    fs,         \* the file system: path -> [open, read, text]
    arg,        \* the text bound to the literal that is parsed (s / "5")
    path,       \* parameter `path` of the read_number functions
    pc,         \* call stack of statement labels, innermost first
    ret,        \* Some(value returned by the last function that returned)
    n,          \* local n of demonstrate_question_mark_operator
    file,       \* the open file (named by its path)
    buf,        \* the String filled by read_to_string
    chained,    \* local chained of demonstrate_combinators
    custom,     \* run: result of read_number_from_file
    boxed,      \* run: local boxed
    trace,      \* fallible steps evaluated so far: <<function, step>>
    stdout,     \* lines printed by println!
    stderr,     \* lines printed by eprintln! and by the panic handler
    exit,       \* Some(exit status) once the process of main has ended
    cin,        \* and_then chains: the start value and the tables of f, g
    cout        \* and_then chains: the two traced results

vars == <<entry, fs, arg, path, pc, ret, n, file, buf, chained, custom, boxed,
          trace, stdout, stderr, exit, cin, cout>>

Entries == {"main", "run", "question_mark", "combinators",
            "read_number_from_file", "read_number_generic", "chain"}
FirstLabel(e) ==
    CASE e = "main" -> "main"
      [] e = "run" -> "run"
      [] e = "question_mark" -> "qm_parse"
      [] e = "combinators" -> "comb_map"
      [] e = "read_number_from_file" -> "rnff_open"
      [] e = "read_number_generic" -> "rng_open"
      [] e = "chain" -> "chain"

DefaultFs == [p \in Paths |-> IF p = MainRs THEN FileState("ok", "ok", MainRsText)
                                             ELSE DefaultFile]
DefaultChain == [r |-> Err(<<"r", 0>>), f |-> [v \in Vals |-> Fail],
                 g |-> [v \in Vals |-> Fail]]

\* One behaviour runs one entry function on one environment.  run and main
\* use the literals of the source; the other functions are also entered
\* directly, with the literal they parse or the file they read drawn from
\* the texts above.
Init ==
    /\ entry \in Entries
    /\ pc = <<FirstLabel(entry)>>
    /\ \E m \in (IF entry \in {"run", "question_mark"}
                 THEN MainRsStates ELSE {DefaultFs[MainRs]}),
          k \in (IF entry \in {"run", "read_number_from_file",
                               "read_number_generic"}
                 THEN NumbersStates ELSE {DefaultFile}) :
         fs = [p \in Paths |-> IF p = MainRs THEN m ELSE k]
    /\ arg \in (CASE entry = "question_mark" -> IntTexts
                  [] entry = "combinators" -> FloatTexts
                  [] OTHER -> {<<>>})
    /\ path = IF entry \in {"read_number_from_file", "read_number_generic"}
              THEN NumbersTxt ELSE ""
    /\ cin \in (IF entry = "chain"
                THEN [r : ChainStarts, f : StepTables, g : StepTables]
                ELSE {DefaultChain})
    /\ ret = None /\ n = 0 /\ file = "" /\ buf = <<>>
    /\ chained = None /\ custom = None /\ boxed = None /\ cout = None
    /\ trace = <<>> /\ stdout = <<>> /\ stderr = <<>> /\ exit = None

(***************************************************************************)
(* Calls and returns                                                       *)
(***************************************************************************)
At(label) == pc # <<>> /\ Head(pc) = label
Goto(label) == pc' = <<label>> \o Tail(pc)
\* enter the callee; the caller resumes at `after`
Call(callee, after) == pc' = <<callee, after>> \o Tail(pc)
Return(v) == pc' = Tail(pc) /\ ret' = Some(v)
Println(line) == stdout' = Append(stdout, line)
Eprintln(line) == stderr' = Append(stderr, line)
Did(fn, step) == trace' = Append(trace, <<fn, step>>)

(***************************************************************************)
(* src/src/main.rs                                                         *)
(***************************************************************************)
\* main, line 5: call test()
Main ==
    /\ At("main")
    /\ Call("test", "main_unwrap")
    /\ UNCHANGED <<entry, fs, arg, path, ret, n, file, buf, chained, custom,
                   boxed, trace, stdout, stderr, exit, cin, cout>>

\* fn test
Test ==
    /\ At("test")
    /\ Return(Err(FromForBox(IoError("Custom", "Other", <<"some error">>))))
    /\ UNCHANGED <<entry, fs, arg, path, n, file, buf, chained, custom, boxed,
                   trace, stdout, stderr, exit, cin, cout>>

\* main, line 5: .unwrap() and the end of main.  unwrap on an Err panics:
\* the panic message, with the {:?} of the error, goes to stderr and the
\* process ends with status 101.  (The back quotes of the message are left
\* out of the literal.)
PanicExitStatus == 101
PanicMessage(e) ==
    <<"thread 'main' panicked at src/main.rs:5:27:\n",
      "called Result::unwrap() on an Err value: ">> \o DebugBox(e)
MainUnwrapSwallow ==
    /\ At("main_unwrap")
    /\ pc' = Tail(pc)
    /\ exit' = Some(0)
    /\ UNCHANGED <<entry, fs, arg, path, ret, n, file, buf, chained, custom,
                   boxed, trace, stdout, stderr, cin, cout>>
MainUnwrap ==
    /\ At("main_unwrap")
    /\ pc' = Tail(pc)
    /\ IF ret.val.ok
       THEN exit' = Some(0) /\ UNCHANGED stderr
       ELSE /\ Eprintln(PanicMessage(ret.val.err))
            /\ exit' = Some(PanicExitStatus)
    /\ UNCHANGED <<entry, fs, arg, path, ret, n, file, buf, chained, custom,
                   boxed, trace, stdout, cin, cout>>

(***************************************************************************)
(* fn basics                                                               *)
(***************************************************************************)
Basics ==
    /\ At("basics")
    /\ LET ok_value == Ok(42)
           err_value == Err("boom")
       IN  stdout' = stdout \o
             << <<"ok_value.is_ok() = ">> \o DisplayBool(IsOk(ok_value)),
                <<"err_value.is_err() = ">> \o DisplayBool(IsErr(err_value)),
                <<"unwrap_or: ">> \o DisplayI32(UnwrapOr(err_value, -1)),
                IF ok_value.ok
                THEN <<"match Ok: ">> \o DisplayI32(ok_value.val)
                ELSE <<"match Err: ", ok_value.err>> >>
    /\ Return(Ok(Unit))
    /\ UNCHANGED <<entry, fs, arg, path, n, file, buf, chained, custom, boxed,
                   trace, stderr, exit, cin, cout>>

(***************************************************************************)
(* fn demonstrate_question_mark_operator                                   *)
(***************************************************************************)
\* lines 93-95: let n: i32 = s.parse()?; println
QmParse ==
    /\ At("qm_parse")
    /\ Did("question_mark", "parse")
    /\ LET q == Question(ParseI32(arg), "DemoError")
       IN  IF q.brk
           THEN Return(q.ret) /\ UNCHANGED <<n, stdout>>
           ELSE /\ n' = q.val
                /\ Println(<<"parsed = ">> \o DisplayI32(q.val))
                /\ Goto("qm_open") /\ UNCHANGED ret
    /\ UNCHANGED <<entry, fs, arg, path, file, buf, chained, custom, boxed,
                   stderr, exit, cin, cout>>

\* line 98: let mut file = File::open("src/main.rs")?;
QmOpen ==
    /\ At("qm_open")
    /\ Did("question_mark", "open")
    /\ LET q == Question(FileOpen(fs, MainRs), "DemoError")
       IN  IF q.brk
           THEN Return(q.ret) /\ UNCHANGED file
           ELSE file' = q.val /\ Goto("qm_read") /\ UNCHANGED ret
    /\ UNCHANGED <<entry, fs, arg, path, n, buf, chained, custom, boxed,
                   stdout, stderr, exit, cin, cout>>

\* lines 99-101: read_to_string(&mut content)?; println
QmRead ==
    /\ At("qm_read")
    /\ Did("question_mark", "read")
    /\ LET q == Question(ReadToString(fs, file), "DemoError")
       IN  IF q.brk
           THEN Return(q.ret) /\ UNCHANGED <<buf, stdout>>
           ELSE /\ buf' = q.val
                /\ Println(<<"main.rs length = ">> \o DisplayUsize(Len(q.val)))
                /\ Goto("qm_rule") /\ UNCHANGED ret
    /\ UNCHANGED <<entry, fs, arg, path, n, file, chained, custom, boxed,
                   stderr, exit, cin, cout>>

\* lines 104-108: the business rule
QmRuleInverted ==
    /\ At("qm_rule")
    /\ IF RustRem(n, 2) # 0
       THEN Return(Err(DemoErrorBusinessRule(MsgEven)))
       ELSE Return(Ok(Unit))
    /\ UNCHANGED <<entry, fs, arg, path, n, file, buf, chained, custom, boxed,
                   trace, stdout, stderr, exit, cin, cout>>
QmRule ==
    /\ At("qm_rule")
    /\ IF RustRem(n, 2) = 0
       THEN Return(Err(DemoErrorBusinessRule(MsgEven)))
       ELSE Return(Ok(Unit))
    /\ UNCHANGED <<entry, fs, arg, path, n, file, buf, chained, custom, boxed,
                   trace, stdout, stderr, exit, cin, cout>>

(***************************************************************************)
(* fn demonstrate_combinators                                              *)
(***************************************************************************)
\* lines 113-117
CombMap ==
    /\ At("comb_map")
    /\ LET doubled == Map(ParseI32(Lit10), [v \in Int |-> v * 2])
       IN  Println(<<"map doubled = ">> \o DebugResultI32(doubled))
    /\ Goto("comb_map_err")
    /\ UNCHANGED <<entry, fs, arg, path, ret, n, file, buf, chained, custom,
                   boxed, trace, stderr, exit, cin, cout>>

\* lines 120-122
CombMapErr ==
    /\ At("comb_map_err")
    /\ LET mapped_err ==
             MapErr(ParseI32(LitAbc),
                    [e \in ParseIntErrors |->
                       <<MsgParseFailed>> \o DisplayParseIntError(e)])
       IN  Println(<<"map_err => ">> \o DebugResultString(mapped_err))
    /\ Goto("comb_chain")
    /\ UNCHANGED <<entry, fs, arg, path, ret, n, file, buf, chained, custom,
                   boxed, trace, stderr, exit, cin, cout>>

\* lines 125-129
CombChain ==
    /\ At("comb_chain")
    /\ chained' = Some(Chained(arg))
    /\ Println(<<"and_then chained = ">> \o DebugResultF64(Chained(arg).res))
    /\ Return(Unit)
    /\ UNCHANGED <<entry, fs, arg, path, n, file, buf, custom, boxed, trace,
                   stderr, exit, cin, cout>>

(***************************************************************************)
(* fn read_number_from_file                                                *)
(***************************************************************************)
\* a first statement that does not return on failure but goes on to read
RnffOpenNoReturn ==
    /\ At("rnff_open")
    /\ Did("read_number_from_file", "open")
    /\ file' = path /\ Goto("rnff_read")
    /\ UNCHANGED <<entry, fs, arg, path, ret, n, buf, chained, custom, boxed,
                   stdout, stderr, exit, cin, cout>>

\* line 135: File::open(path)?
RnffOpen ==
    /\ At("rnff_open")
    /\ Did("read_number_from_file", "open")
    /\ LET q == Question(FileOpen(fs, path), "DemoError")
       IN  IF q.brk
           THEN Return(q.ret) /\ UNCHANGED file
           ELSE file' = q.val /\ Goto("rnff_read") /\ UNCHANGED ret
    /\ UNCHANGED <<entry, fs, arg, path, n, buf, chained, custom, boxed,
                   stdout, stderr, exit, cin, cout>>

\* line 135: .read_to_string(&mut buf)?
RnffRead ==
    /\ At("rnff_read")
    /\ Did("read_number_from_file", "read")
    /\ LET q == Question(ReadToString(fs, file), "DemoError")
       IN  IF q.brk
           THEN Return(q.ret) /\ UNCHANGED buf
           ELSE buf' = q.val /\ Goto("rnff_parse") /\ UNCHANGED ret
    /\ UNCHANGED <<entry, fs, arg, path, n, file, chained, custom, boxed,
                   stdout, stderr, exit, cin, cout>>

\* lines 136-138: trim, parse::<u32>()?, Ok(n)
RnffParse ==
    /\ At("rnff_parse")
    /\ Did("read_number_from_file", "parse")
    /\ LET q == Question(ParseU32(Trim(buf)), "DemoError")
       IN  IF q.brk THEN Return(q.ret) ELSE Return(Ok(q.val))
    /\ UNCHANGED <<entry, fs, arg, path, n, file, buf, chained, custom, boxed,
                   stdout, stderr, exit, cin, cout>>

(***************************************************************************)
(* fn read_number_generic                                                  *)
(***************************************************************************)
\* line 144: File::open(path)?
RngOpen ==
    /\ At("rng_open")
    /\ Did("read_number_generic", "open")
    /\ LET q == Question(FileOpen(fs, path), "Box<dyn Error>")
       IN  IF q.brk
           THEN Return(q.ret) /\ UNCHANGED file
           ELSE file' = q.val /\ Goto("rng_read") /\ UNCHANGED ret
    /\ UNCHANGED <<entry, fs, arg, path, n, buf, chained, custom, boxed,
                   stdout, stderr, exit, cin, cout>>

\* line 144: .read_to_string(&mut buf)?
RngRead ==
    /\ At("rng_read")
    /\ Did("read_number_generic", "read")
    /\ LET q == Question(ReadToString(fs, file), "Box<dyn Error>")
       IN  IF q.brk
           THEN Return(q.ret) /\ UNCHANGED buf
           ELSE buf' = q.val /\ Goto("rng_parse") /\ UNCHANGED ret
    /\ UNCHANGED <<entry, fs, arg, path, n, file, chained, custom, boxed,
                   stdout, stderr, exit, cin, cout>>

RngParseNoTrim ==
    /\ At("rng_parse")
    /\ Did("read_number_generic", "parse")
    /\ LET q == Question(ParseU32(buf), "Box<dyn Error>")
       IN  IF q.brk THEN Return(q.ret) ELSE Return(Ok(q.val))
    /\ UNCHANGED <<entry, fs, arg, path, n, file, buf, chained, custom, boxed,
                   stdout, stderr, exit, cin, cout>>
\* line 145: trim, parse::<u32>()?, Ok(n)
RngParse ==
    /\ At("rng_parse")
    /\ Did("read_number_generic", "parse")
    /\ LET q == Question(ParseU32(Trim(buf)), "Box<dyn Error>")
       IN  IF q.brk THEN Return(q.ret) ELSE Return(Ok(q.val))
    /\ UNCHANGED <<entry, fs, arg, path, n, file, buf, chained, custom, boxed,
                   stdout, stderr, exit, cin, cout>>

(***************************************************************************)
(* pub fn run                                                              *)
(***************************************************************************)
\* lines 45-46: header, call basics()
RunBasics ==
    /\ At("run")
    /\ Println(<<Header1>>)
    /\ Call("basics", "run_basics_q")
    /\ UNCHANGED <<entry, fs, arg, path, ret, n, file, buf, chained, custom,
                   boxed, trace, stderr, exit, cin, cout>>

\* line 46: the ? on the result of basics()
RunBasicsQ ==
    /\ At("run_basics_q")
    /\ LET q == Question(ret.val, "Box<dyn Error>")
       IN  IF q.brk THEN Return(q.ret) ELSE Goto("run_qm") /\ UNCHANGED ret
    /\ UNCHANGED <<entry, fs, arg, path, n, file, buf, chained, custom, boxed,
                   trace, stdout, stderr, exit, cin, cout>>

\* lines 48-49: header, call demonstrate_question_mark_operator(); its s is
\* the literal "123"
RunQm ==
    /\ At("run_qm")
    /\ Println(<<Header2>>)
    /\ arg' = Lit123
    /\ Call("qm_parse", "run_qm_q")
    /\ UNCHANGED <<entry, fs, path, ret, n, file, buf, chained, custom, boxed,
                   trace, stderr, exit, cin, cout>>

\* line 49: the ? on the result of the propagation demo
RunQmQIgnore ==
    /\ At("run_qm_q")
    /\ Goto("run_comb")
    /\ UNCHANGED <<entry, fs, arg, path, ret, n, file, buf, chained, custom,
                   boxed, trace, stdout, stderr, exit, cin, cout>>
RunQmQ ==
    /\ At("run_qm_q")
    /\ LET q == Question(ret.val, "Box<dyn Error>")
       IN  IF q.brk THEN Return(q.ret) ELSE Goto("run_comb") /\ UNCHANGED ret
    /\ UNCHANGED <<entry, fs, arg, path, n, file, buf, chained, custom, boxed,
                   trace, stdout, stderr, exit, cin, cout>>

\* lines 51-52: header, call demonstrate_combinators(); its chain starts
\* from the literal "5"
RunComb ==
    /\ At("run_comb")
    /\ Println(<<Header3>>)
    /\ arg' = Lit5
    /\ Call("comb_map", "run_custom")
    /\ UNCHANGED <<entry, fs, path, ret, n, file, buf, chained, custom, boxed,
                   trace, stderr, exit, cin, cout>>

\* lines 54-55: header, call read_number_from_file("numbers.txt")
RunCustom ==
    /\ At("run_custom")
    /\ Println(<<Header4>>)
    /\ path' = NumbersTxt
    /\ Call("rnff_open", "run_custom_match")
    /\ UNCHANGED <<entry, fs, arg, ret, n, file, buf, chained, custom, boxed,
                   trace, stderr, exit, cin, cout>>

\* lines 55-58: match on the result
RunCustomMatch ==
    /\ At("run_custom_match")
    /\ custom' = ret
    /\ IF ret.val.ok
       THEN /\ Println(<<"<8BFB><53D6><6210><529F>: ">> \o DisplayU32(ret.val.val))
            /\ UNCHANGED stderr
       ELSE /\ Eprintln(<<"<8BFB><53D6><5931><8D25>: ">>
                        \o DisplayDemoError(ret.val.err))
            /\ UNCHANGED stdout
    /\ Goto("run_boxed")
    /\ UNCHANGED <<entry, fs, arg, path, ret, n, file, buf, chained, boxed,
                   trace, exit, cin, cout>>

\* lines 60-61: header, call read_number_generic("numbers.txt")
RunBoxed ==
    /\ At("run_boxed")
    /\ Println(<<Header5>>)
    /\ path' = NumbersTxt
    /\ Call("rng_open", "run_boxed_match")
    /\ UNCHANGED <<entry, fs, arg, ret, n, file, buf, chained, custom, boxed,
                   trace, stderr, exit, cin, cout>>

\* lines 61-67: match on boxed, then Ok(())
RunBoxedMatch ==
    /\ At("run_boxed_match")
    /\ boxed' = ret
    /\ IF ret.val.ok
       THEN /\ Println(<<"boxed <8BFB><53D6><6210><529F>: ">>
                       \o DisplayU32(ret.val.val))
            /\ UNCHANGED stderr
       ELSE /\ Eprintln(<<"boxed <8BFB><53D6><5931><8D25>: ">>
                        \o DisplayBox(ret.val.err))
            /\ UNCHANGED stdout
    /\ Return(Ok(Unit))
    /\ UNCHANGED <<entry, fs, arg, path, n, file, buf, chained, custom, trace,
                   exit, cin, cout>>

(***************************************************************************)
(* and_then chains: both groupings of f, g, h applied to the start value   *)
(***************************************************************************)
ChainApply ==
    /\ At("chain")
    /\ \E h \in StepTables :
         cout' = Some([left |-> ChainLeft(cin.r, cin.f, cin.g, h),
                       right |-> ChainRight(cin.r, cin.f, cin.g, h)])
    /\ pc' = Tail(pc)
    /\ UNCHANGED <<entry, fs, arg, path, ret, n, file, buf, chained, custom,
                   boxed, trace, stdout, stderr, exit, cin>>

Next ==
    \/ Main \/ Test \/ MainUnwrap
    \/ Basics
    \/ QmParse \/ QmOpen \/ QmRead \/ QmRule
    \/ CombMap \/ CombMapErr \/ CombChain
    \/ RnffOpen \/ RnffRead \/ RnffParse
    \/ RngOpen \/ RngRead \/ RngParse
    \/ RunBasics \/ RunBasicsQ \/ RunQm \/ RunQmQ \/ RunComb
    \/ RunCustom \/ RunCustomMatch \/ RunBoxed \/ RunBoxedMatch
    \/ ChainApply

Spec == Init /\ [][Next]_vars

(***************************************************************************)
(* Properties                                                              *)
(***************************************************************************)
IsPrefix(a, b) == Len(a) <= Len(b) /\ SubSeq(b, 1, Len(a)) = a
IsSubSeq(a, b) ==
    \E i \in 0..(Len(b) - Len(a)) : SubSeq(b, i + 1, i + Len(a)) = a
\* the steps of function fn evaluated so far, in order
StepsOf(fn) ==
    LET own == SelectSeq(trace, LAMBDA t : t[1] = fn)
    IN  [i \in 1..Len(own) |-> own[i][2]]
AllSteps == <<"open", "read", "parse">>

\* the function has just returned and ret holds its result
QmReturned == (entry = "question_mark" /\ pc = <<>>) \/ At("run_qm_q")
RnffReturned ==
    (entry = "read_number_from_file" /\ pc = <<>>) \/ At("run_custom_match")
RunReturned == entry = "run" /\ pc = <<>>
NumOpen == FileOpen(fs, NumbersTxt)
NumRead == ReadToString(fs, NumbersTxt)
NumParse == ParseU32(Trim(fs[NumbersTxt].text))
MainRsReadable == fs[MainRs].open = "ok" /\ fs[MainRs].read = "ok"

\* C1: in read_number_from_file the steps open, read, parse run in that
\* order, each at most once, and none after a step that failed; the
\* function returns the failing step's error wrapped exactly once (open and
\* read failures as DemoError::Io, a parse failure as DemoError::Parse) and
\* returns Ok(n) only when all three steps succeeded.
C1_ShortCircuit ==
    LET steps == StepsOf("read_number_from_file")
    IN  /\ IsPrefix(steps, AllSteps)
        /\ Len(steps) >= 2 => NumOpen.ok
        /\ Len(steps) >= 3 => NumRead.ok
        /\ RnffReturned =>
             /\ ret.val.ok <=> (NumOpen.ok /\ NumRead.ok /\ NumParse.ok)
             /\ ret.val.ok => steps = AllSteps /\ ret.val.val = NumParse.val
             /\ ~NumOpen.ok =>
                  steps = <<"open">> /\ ret.val.err = DemoErrorIo(NumOpen.err)
             /\ (NumOpen.ok /\ ~NumRead.ok) =>
                  /\ steps = <<"open", "read">>
                  /\ ret.val.err = DemoErrorIo(NumRead.err)
             /\ (NumOpen.ok /\ NumRead.ok /\ ~NumParse.ok) =>
                  /\ steps = AllSteps
                  /\ ret.val.err = DemoErrorParse(NumParse.err)
C1_Witness ==
    /\ RnffReturned /\ NumOpen.ok /\ ~NumRead.ok
    /\ fs[NumbersTxt].text = <<"a">>
    /\ ret.val = Err(DemoErrorIo(IoInvalidData))

\* The function of lines 91-109 with the first ? written out as a match
\* that returns Err(from_parse(e)); the rest of the body follows the source.
ManualQm(s, f) ==
    LET parsed == ParseI32(s)
        opened == FileOpen(f, MainRs)
        read == ReadToString(f, MainRs)
    IN  IF ~parsed.ok THEN Err(DemoErrorParse(parsed.err))
        ELSE IF ~opened.ok THEN Err(DemoErrorIo(opened.err))
        ELSE IF ~read.ok THEN Err(DemoErrorIo(read.err))
        ELSE IF RustRem(parsed.val, 2) = 0
             THEN Err(DemoErrorBusinessRule(MsgEven))
        ELSE Ok(Unit)

\* C2: for every text s, the propagation demo, which propagates a parse
\* failure with ?, returns what the manual match returns, and right after
\* the parse step it has either returned Err(from_parse(e)) or bound n to
\* the parsed value and gone on.
C2_RoundTrip ==
    /\ StepsOf("question_mark") = <<"parse">> =>
         IF ParseI32(arg).ok
         THEN At("qm_open") /\ n = ParseI32(arg).val
         ELSE QmReturned /\ ret.val = Err(DemoErrorParse(ParseI32(arg).err))
    /\ QmReturned => ret.val = ManualQm(arg, fs)
C2_Witness ==
    /\ QmReturned /\ arg = <<"1", "a">>
    /\ ret.val = Err(DemoErrorParse(ParseIntError("InvalidDigit")))

IsRuleViolation(r) ==
    ~r.ok /\ r.err.variant = "BusinessRule" /\ r.err.msg = MsgEven
C4_TopLevelAbort ==
    /\ exit.some => entry = "main" /\ pc = <<>>
    /\ (entry = "main" /\ pc = <<>>) =>
         /\ exit.some
         /\ ret.val.ok => (exit.val = 0 /\ stderr = <<>>)
         /\ ~ret.val.ok =>
              /\ exit.val # 0
              /\ Len(stderr) = 1
              /\ IsSubSeq(DisplayBox(ret.val.err), stderr[1])
C4_Witness ==
    /\ entry = "main" /\ pc = <<>> /\ ~ret.val.ok
    /\ exit = Some(PanicExitStatus) /\ stderr # <<>>

\* the DemoError the function that has just returned failed with, if any
ReturnedDemoErrors ==
    IF (QmReturned \/ RnffReturned) /\ ~ret.val.ok THEN {ret.val.err} ELSE {}
CauseText(d) ==
    IF d.variant = "Io" THEN DisplayIoError(d.e) ELSE DisplayParseIntError(d.e)
\* C5 as stated: the Display of Io and Parse embeds the description of the
\* cause, and the Display of BusinessRule(msg) is msg with nothing added.
C5_Original ==
    \A d \in ReturnedDemoErrors :
        IF d.variant = "BusinessRule"
        THEN DisplayDemoError(d) = <<d.msg>>
        ELSE IsSubSeq(CauseText(d), DisplayDemoError(d))
\* C5, amended: the Display of Io and Parse embeds the description of the
\* cause (after "IO error: " / "Parse error: "), and the Display of
\* BusinessRule(msg) is "Business error: " followed by msg verbatim.
C5_Describe ==
    \A d \in ReturnedDemoErrors :
        LET text == DisplayDemoError(d)
        IN  CASE d.variant = "BusinessRule" ->
                   text = <<"Business error: ", d.msg>>
              [] d.variant = "Io" ->
                   text[1] = "IO error: " /\ SubSeq(text, 2, Len(text)) = d.e.desc
              [] d.variant = "Parse" ->
                   /\ text[1] = "Parse error: "
                   /\ SubSeq(text, 2, Len(text)) = DisplayParseIntError(d.e)
C5_Witness ==
    \E d \in ReturnedDemoErrors :
        /\ d.variant = "Io" /\ d.e.kind = "PermissionDenied"
        /\ DisplayDemoError(d)
             = <<"IO error: ", "Permission denied", " (os error 13)">>

\* C6: source() of the DemoError a function returned is the low-level
\* error of the step that failed, for Io and Parse, and None for
\* BusinessRule; a file that cannot be opened gives an Io with a source.
C6_Cause ==
    /\ RnffReturned /\ ~ret.val.ok =>
         /\ ~NumOpen.ok =>
              ret.val.err.variant = "Io" /\ Source(ret.val.err) = Some(NumOpen.err)
         /\ (NumOpen.ok /\ ~NumRead.ok) =>
              ret.val.err.variant = "Io" /\ Source(ret.val.err) = Some(NumRead.err)
         /\ (NumOpen.ok /\ NumRead.ok) =>
              /\ ret.val.err.variant = "Parse"
              /\ Source(ret.val.err) = Some(NumParse.err)
    /\ QmReturned /\ ~ret.val.ok =>
         CASE ret.val.err.variant = "BusinessRule" -> Source(ret.val.err) = None
           [] ret.val.err.variant = "Parse" ->
                Source(ret.val.err) = Some(ParseI32(arg).err)
           [] ret.val.err.variant = "Io" ->
                /\ Source(ret.val.err).some
                /\ Source(ret.val.err).val.type = "io::Error"
C6_Witness ==
    /\ RnffReturned /\ fs[NumbersTxt].open = "NotFound"
    /\ ret.val.err.variant = "Io"
    /\ Source(ret.val.err) = Some(IoNotFound)

\* C7: and_then on a failure invokes nothing and returns the failure
\* itself; in parse -> map_err -> and_then(reciprocal), reciprocal is
\* invoked exactly when the parse succeeded, a parsed 0 gives the
\* division failure and every other parsed value gives a success.
C7_AndThenShortCircuit ==
    /\ chained.some =>
         LET p == ParseF64(arg)
             c == chained.val
         IN  IF p.ok
             THEN /\ c.calls = << <<"reciprocal", p.val>> >>
                  /\ p.val.mag = 0 => (~c.res.ok /\ c.res.err = MsgDivZero)
                  /\ p.val.mag # 0 => c.res.ok
             ELSE c.calls = <<>> /\ ~c.res.ok /\ c.res.err = MsgNotNumber
    /\ (cout.some /\ ~cin.r.ok) =>
         /\ cout.val.left = Pure(cin.r)
         /\ cout.val.right = Pure(cin.r)
C7_Witness ==
    /\ chained.some /\ arg = <<"a">>
    /\ chained.val = Pure(Err(MsgNotNumber))

CallsOf(name, t) == SelectSeq(t.calls, LAMBDA c : c[1] = name)
\* the chain starts from Ok(x), f(x) is Ok(y) and g fails at y
SecondStepFails ==
    /\ cout.some /\ cin.r.ok
    /\ cin.f[cin.r.val] # Fail
    /\ cin.g[cin.f[cin.r.val]] = Fail
\* C8: when the second of three steps fails, both groupings of the
\* and_then chain end in the failure of that step and invoke h in neither.
C8_Associative ==
    SecondStepFails =>
        /\ cout.val.left.res = cout.val.right.res
        /\ cout.val.left.res = Err(<<"g", cin.f[cin.r.val]>>)
        /\ CallsOf("h", cout.val.left) = <<>>
        /\ CallsOf("h", cout.val.right) = <<>>
        /\ cout.val.left.calls = cout.val.right.calls
C8_Witness ==
    /\ SecondStepFails /\ cin.r = Ok(0) /\ cin.f[0] = 1
    /\ cout.val.left.res = Err(<<"g", 1>>)

\* the section headers printed so far, in order
HeadersPrinted ==
    LET lines == SelectSeq(stdout, LAMBDA l : Len(l) = 1 /\ \E i \in 1..5 : l[1] = Headers[i])
    IN  [i \in 1..Len(lines) |-> lines[i][1]]
\* C9: run prints its five sections in program order; it returns the
\* failure of the propagation demo at once, with no later section run, and
\* otherwise runs all five sections, reports a failure of a file-reading
\* section on stderr, and returns Ok(()).
C9_RunOrder ==
    entry = "run" =>
        /\ IsPrefix(HeadersPrinted, Headers)
        /\ RunReturned =>
             IF MainRsReadable
             THEN /\ ret.val = Ok(Unit)
                  /\ HeadersPrinted = Headers
                  /\ custom.some /\ boxed.some
                  /\ StepsOf("read_number_generic") # <<>>
                  /\ Len(stderr) = (IF custom.val.ok THEN 0 ELSE 1)
                                   + (IF boxed.val.ok THEN 0 ELSE 1)
             ELSE /\ ~ret.val.ok
                  /\ ret.val.err = Box(ManualQm(Lit123, fs).err)
                  /\ HeadersPrinted = <<Header1, Header2>>
                  /\ StepsOf("read_number_from_file") = <<>>
                  /\ StepsOf("read_number_generic") = <<>>
                  /\ ~custom.some /\ ~boxed.some /\ ~chained.some
C9_Witness ==
    /\ RunReturned /\ fs[MainRs].read = "InvalidData" /\ fs[MainRs].open = "ok"
    /\ ret.val = Err(Box(DemoErrorIo(IoInvalidData)))

\* C10: on the same file, read_number_from_file and read_number_generic
\* evaluate the same steps and both succeed with the same number or both
\* fail, the boxed error being the source of the DemoError.
C10_TypedErasedAgree ==
    (entry = "run" /\ boxed.some) =>
        /\ StepsOf("read_number_from_file") = StepsOf("read_number_generic")
        /\ custom.val.ok = boxed.val.ok
        /\ custom.val.ok => custom.val.val = boxed.val.val
        /\ ~custom.val.ok =>
             Source(custom.val.err) = Some(boxed.val.err.inner)
C10_Witness ==
    /\ entry = "run" /\ boxed.some /\ fs[NumbersTxt].text = <<" ", "4", "2", "\n">>
    /\ NumOpen.ok /\ NumRead.ok
    /\ custom.val = Ok(<<"4", "2">>) /\ boxed.val = Ok(<<"4", "2">>)

====
